---- MODULE Spec2Model ----
(***************************************************************************)
(* A model of the five structural operators of the C# driver's normalizer *)
(* (driver/normalizer/normalizer.go): opArrHasKeyword, opArrToChain,      *)
(* dropNils, opMoveTrivias and opMergeGroups, over the SDK's node model.  *)
(***************************************************************************)
EXTENDS Integers, Sequences, FiniteSets, TLC

VARIABLES
    op,     \* the call made last, "init" before the first one
    in,     \* the node given to the call
    cfg,    \* the operator's configuration (keyword, sub-patterns)
    st,     \* the binding state
    calls,  \* the Checks of sub-patterns the call made, in order
    res,    \* what the call returned
    heap    \* the maps and backing arrays in memory, by address

vars == <<op, in, cfg, st, calls, res, heap>>

(***************************************************************************)
(* Bounds of the model.                                                    *)
(***************************************************************************)
\* Longest array given to the keyword extractor and the chain encoder.
MaxLen == 3

\* Longest LeadingTrivia / TrailingTrivia array of a node.
MaxTrivia == 2

\* Longest "Nodes" array of a uast:Group or uast:FunctionGroup.
MaxNodes == 3

(***************************************************************************)
(* Node model: a tagged union.  Every node is a record whose field k names *)
(* the kind; the payload field is named after the kind, so that nodes of   *)
(* different kinds are different records.                                  *)
(***************************************************************************)
Null == [k |-> "null"]

Bool(b) == [k |-> "bool", b |-> b]

String(s) == [k |-> "str", s |-> s]

Array(a) == [k |-> "arr", a |-> a]

Object(f) == [k |-> "obj", f |-> f]

KeyType == "@type"

typeGroup == "uast:Group"

typeFuncGroup == "uast:FunctionGroup"

\* uast.TypeOf: the type discriminator of an object, "" for anything else.
TypeOf(n) ==
    IF n.k = "obj" /\ KeyType \in DOMAIN n.f /\ n.f[KeyType].k = "str"
    THEN n.f[KeyType].s
    ELSE ""

\* An object of the given type with the given other fields.
Typed(typ, f) ==
    Object([x \in DOMAIN f \cup {KeyType} |->
              IF x = KeyType THEN String(typ) ELSE f[x]])

\* obj[key] = val on a map.
SetField(f, key, val) ==
    [x \in DOMAIN f \cup {key} |-> IF x = key THEN val ELSE f[x]]

\* delete(obj, key) on a map.
DelField(f, key) == [x \in DOMAIN f \ {key} |-> f[x]]

\* All sequences over S of length at most n.
SeqUpTo(S, n) == UNION {[1..m -> S] : m \in 0..n}

(***************************************************************************)
(* Match/build engine: the binding state and the two base patterns the     *)
(* operators are configured with in this repository (Var) and an exact    *)
(* match (Is), which can fail.                                             *)
(***************************************************************************)
NoVars == <<>>

Var(name) == [kind |-> "var", name |-> name]

Is(val) == [kind |-> "is", val |-> val]

\* Check of a base pattern: [ok, err, st].
PatCheck(pat, s, n) ==
    IF pat.kind = "var"
    THEN IF pat.name \in DOMAIN s
         THEN IF s[pat.name] = n
              THEN [ok |-> TRUE, err |-> "", st |-> s]
              ELSE [ok |-> FALSE, err |-> "redeclared", st |-> s]
         ELSE [ok |-> TRUE, err |-> "", st |-> SetField(s, pat.name, n)]
    ELSE [ok |-> n = pat.val, err |-> "", st |-> s]

\* Construct of a base pattern: [err, node].
PatConstruct(pat, s) ==
    IF pat.kind = "var"
    THEN IF pat.name \in DOMAIN s
         THEN [err |-> "", node |-> s[pat.name]]
         ELSE [err |-> "undefined", node |-> Null]
    ELSE [err |-> "", node |-> pat.val]

\* One recorded invocation of a sub-pattern's Check.
Call(pat, arg, r) == [pat |-> pat, arg |-> arg, ok |-> r.ok /\ r.err = ""]

(***************************************************************************)
(* opArrHasKeyword                                                         *)
(***************************************************************************)
\* The loop's test of one element (lines 52-63).
IsKeyword(e, keyword) ==
    /\ e.k = "obj"
    /\ KeyType \in DOMAIN e.f
    /\ e.f[KeyType].k = "str"
    /\ e.f[KeyType].s = keyword

\* A bug: the second copy starts one element early.
RemoveAt_keeps(arr, i) ==
    [j \in 1..(Len(arr) - 1) |-> IF j < i THEN arr[j] ELSE arr[j]]

\* rest := make(len-1); copy(rest, arr[:i]); copy(rest[i:], arr[i+1:])
\* (i is 1-based here).
RemoveAt(arr, i) ==
    [j \in 1..(Len(arr) - 1) |-> IF j < i THEN arr[j] ELSE arr[j + 1]]

\* The index the range loop stops at, 0 when it runs to the end.
RECURSIVE ScanKeyword(_, _, _)
ScanKeyword(arr, keyword, i) ==
    IF i > Len(arr) THEN 0
    ELSE IF IsKeyword(arr[i], keyword) THEN i
    ELSE ScanKeyword(arr, keyword, i + 1)

\* opArrHasKeyword.Check: [ok, err, st, calls].
opArrHasKeyword_Check(keyword, opHas, opRest, s, n) ==
    LET ok  == n.k = "arr"
        \* a failed type assertion leaves arr nil
        arrNil == ~ok
        arr == IF ok THEN n.a ELSE <<>>
        i   == ScanKeyword(arr, keyword, 1)
        flag == Bool(i # 0)
        h   == PatCheck(opHas, s, flag)
        rest == IF i # 0 THEN Array(RemoveAt(arr, i)) ELSE n
        r   == PatCheck(opRest, h.st, rest)
    IN  IF ~ok /\ ~arrNil
        THEN [ok |-> FALSE, err |-> "", st |-> s, calls |-> <<>>]
        ELSE IF h.err # "" \/ ~h.ok
        THEN [ok |-> h.ok, err |-> h.err, st |-> h.st,
              calls |-> <<Call("opHas", flag, h)>>]
        ELSE [ok |-> r.ok, err |-> r.err, st |-> r.st,
              calls |-> <<Call("opHas", flag, h), Call("opRest", rest, r)>>]

(***************************************************************************)
(* Inputs of the keyword extractor.                                        *)
(***************************************************************************)
Comment(t) == Typed("Comment", [Token |-> String(t)])

Keywords == {"ParamsKeyword", "ThisKeyword"}

KwElems ==
    {Comment("a"), Comment("b"), Typed("ParamsKeyword", <<>>),
     Typed("ThisKeyword", <<>>), Null, Object([Name |-> String("x")])}

KwInputs ==
    {Array(a) : a \in SeqUpTo(KwElems, MaxLen)}
        \cup {Null, Bool(TRUE), String("ParamsKeyword"), Typed("ParamsKeyword", <<>>)}

KwHasPats == {Var("variadic"), Is(Bool(TRUE))}

KwRestPats == {Var("rest"), Is(Array(<<>>))}

(***************************************************************************)
(* Actions                                                                 *)
(***************************************************************************)
\* Before a call: the input and the operator's configuration are chosen.
Start(inputs, configs) ==
    /\ op = "init"
    /\ in \in inputs
    /\ cfg \in configs
    /\ st = NoVars
    /\ calls = <<>>
    /\ res = [ok |-> FALSE, err |-> "", node |-> Null]
    /\ heap = <<>>

KwConfigs ==
    {[keyword |-> kw, opHas |-> h, opRest |-> r] :
        kw \in Keywords, h \in KwHasPats, r \in KwRestPats}

InitKeyword == Start(KwInputs, KwConfigs)

ArrHasKeywordCheck ==
    /\ op = "init"
    /\ LET c == opArrHasKeyword_Check(cfg.keyword, cfg.opHas, cfg.opRest, st, in) IN
        /\ op' = "opArrHasKeyword.Check"
        /\ st' = c.st
        /\ calls' = c.calls
        /\ res' = [ok |-> c.ok, err |-> c.err, node |-> Null]
    /\ UNCHANGED <<in, cfg, heap>>

NextKeyword == ArrHasKeywordCheck

SpecKeyword == InitKeyword /\ [][NextKeyword]_vars

(***************************************************************************)
(* C1: the keyword-flag extractor checks the flag sub-pattern against     *)
(* "some element has type K" and, when that succeeds, the remainder       *)
(* sub-pattern against the array without the first such element (the      *)
(* array itself when there is none); nothing else is removed or moved.    *)
(***************************************************************************)
KeywordAt(a, kw) == {i \in 1..Len(a) : TypeOf(a[i]) = kw}

FirstOf(S) == CHOOSE i \in S : \A j \in S : i <= j

WithoutFirst(a, kw) ==
    IF KeywordAt(a, kw) = {} THEN a
    ELSE SubSeq(a, 1, FirstOf(KeywordAt(a, kw)) - 1)
            \o SubSeq(a, FirstOf(KeywordAt(a, kw)) + 1, Len(a))

C1_KeywordExtraction ==
    (op = "opArrHasKeyword.Check" /\ in.k = "arr") =>
        /\ Len(calls) >= 1
        /\ calls[1].pat = "opHas"
        /\ calls[1].arg = Bool(KeywordAt(in.a, cfg.keyword) # {})
        /\ IF calls[1].ok
           THEN /\ Len(calls) = 2
                /\ calls[2].pat = "opRest"
                /\ calls[2].arg = Array(WithoutFirst(in.a, cfg.keyword))
           ELSE Len(calls) = 1

\* The keyword occurs twice, not in front, and both sub-patterns were checked.
C1_Witness ==
    /\ op = "opArrHasKeyword.Check"
    /\ in.k = "arr"
    /\ Cardinality(KeywordAt(in.a, cfg.keyword)) = 2
    /\ 1 \notin KeywordAt(in.a, cfg.keyword)
    /\ Len(calls) = 2
    /\ res.ok

(***************************************************************************)
(* opArrToChain                                                            *)
(***************************************************************************)
\* A bug: the terminal is searched for along "Type", the wrappers are lost.
opArrToChain_Check_inner(opMods, opType, s, n) ==
    LET RECURSIVE Inner(_)
        Inner(x) == IF x.k = "obj" /\ "Type" \in DOMAIN x.f
                    THEN Inner(x.f["Type"]) ELSE x
        mods == Array(<<>>)
        t == PatCheck(opType, s, Inner(n))
        m == PatCheck(opMods, t.st, mods)
    IN  IF t.err # "" \/ ~t.ok
        THEN [ok |-> t.ok, err |-> t.err, st |-> t.st,
              calls |-> <<Call("opType", Inner(n), t)>>]
        ELSE [ok |-> m.ok, err |-> m.err, st |-> m.st,
              calls |-> <<Call("opType", Inner(n), t), Call("opMods", mods, m)>>]

\* opArrToChain.Check: [ok, err, st, calls].  mods is declared and never
\* appended to; the whole node goes to the terminal sub-pattern.
opArrToChain_Check(opMods, opType, s, n) ==
    LET mods == Array(<<>>)
        t == PatCheck(opType, s, n)
        m == PatCheck(opMods, t.st, mods)
    IN  IF t.err # "" \/ ~t.ok
        THEN [ok |-> t.ok, err |-> t.err, st |-> t.st,
              calls |-> <<Call("opType", n, t)>>]
        ELSE [ok |-> m.ok, err |-> m.err, st |-> m.st,
              calls |-> <<Call("opType", n, t), Call("opMods", mods, m)>>]

\* The loop of Construct (lines 155-166) from element i on, typ being the
\* node accumulated so far.
RECURSIVE WrapMods(_, _, _)
WrapMods(mods, i, typ) ==
    IF i > Len(mods) THEN [err |-> "", node |-> typ]
    ELSE LET nd == mods[i] IN
         IF nd.k # "obj" THEN [err |-> "unexpected type", node |-> Null]
         ELSE IF "Type" \in DOMAIN nd.f
         THEN [err |-> "unexpected field in modifier: Type", node |-> Null]
         ELSE WrapMods(mods, i + 1, Object(SetField(nd.f, "Type", typ)))

\* opArrToChain.Construct: [err, node].
opArrToChain_Construct(opMods, opType, s) ==
    LET nd == PatConstruct(opMods, s)
        typ == PatConstruct(opType, s)
    IN  IF nd.err # "" THEN [err |-> nd.err, node |-> Null]
        ELSE IF nd.node.k # "arr" THEN [err |-> "unexpected type", node |-> Null]
        ELSE IF typ.err # "" THEN [err |-> typ.err, node |-> Null]
        ELSE WrapMods(nd.node.a, 1, typ.node)

(***************************************************************************)
(* Inputs of the chain encoder/decoder: (modifier list, terminal) pairs    *)
(* and nested nodes linked through "Type".                                 *)
(***************************************************************************)
Pair(mods, typ) == [k |-> "pair", mods |-> mods, typ |-> typ]

IntType == Typed("PredefinedType", [Keyword |-> String("int")])

Modifier(t) == Typed(t, <<>>)

ModElems ==
    {Modifier("RefKeyword"), Modifier("OutKeyword"),
     Typed("RefKeyword", [Type |-> IntType]), String("ref")}

Terminals == {IntType, String("int"), Null}

ChainPairs ==
    {Pair(Array(m), t) : m \in SeqUpTo(ModElems, MaxLen), t \in Terminals}

\* The nodes with exactly n wrapper layers around a terminal.
RECURSIVE Chains(_)
Chains(n) ==
    IF n = 0 THEN Terminals
    ELSE {Typed(w, [Type |-> c]) : w \in {"RefKeyword", "OutKeyword"},
                                   c \in Chains(n - 1)}

ChainNodes == UNION {Chains(n) : n \in 0..MaxLen}

ChainConfigs ==
    {[opMods |-> Var("rest"), opType |-> t] : t \in {Var("type"), Is(IntType)}}

InitChain == Start(ChainPairs \cup ChainNodes, ChainConfigs)

\* Construct from the bindings a source-side match of (rest, type) leaves.
ChainConstruct ==
    /\ op = "init"
    /\ in.k = "pair"
    /\ LET s0 == [rest |-> in.mods, type |-> in.typ]
           c  == opArrToChain_Construct(cfg.opMods, cfg.opType, s0) IN
        /\ op' = "opArrToChain.Construct"
        /\ st' = s0
        /\ res' = [ok |-> c.err = "", err |-> c.err, node |-> c.node]
    /\ UNCHANGED <<in, cfg, calls, heap>>

\* Check, with a fresh state, of the node Construct returned.
ChainCheckBack ==
    /\ op = "opArrToChain.Construct"
    /\ res.err = ""
    /\ LET c == opArrToChain_Check(cfg.opMods, cfg.opType, NoVars, res.node) IN
        /\ op' = "opArrToChain.Construct+Check"
        /\ st' = c.st
        /\ calls' = c.calls
        /\ res' = [ok |-> c.ok, err |-> c.err, node |-> res.node]
    /\ UNCHANGED <<in, cfg, heap>>

ChainCheck ==
    /\ op = "init"
    /\ in.k # "pair"
    /\ LET c == opArrToChain_Check(cfg.opMods, cfg.opType, st, in) IN
        /\ op' = "opArrToChain.Check"
        /\ st' = c.st
        /\ calls' = c.calls
        /\ res' = [ok |-> c.ok, err |-> c.err, node |-> Null]
    /\ UNCHANGED <<in, cfg, heap>>

\* Construct from the bindings the Check left.
ChainConstructBack ==
    /\ op = "opArrToChain.Check"
    /\ res.ok /\ res.err = ""
    /\ LET c == opArrToChain_Construct(cfg.opMods, cfg.opType, st) IN
        /\ op' = "opArrToChain.Check+Construct"
        /\ res' = [ok |-> c.err = "", err |-> c.err, node |-> c.node]
    /\ UNCHANGED <<in, cfg, st, calls, heap>>

NextChain ==
    \/ ChainConstruct
    \/ ChainCheckBack
    \/ ChainCheck
    \/ ChainConstructBack

SpecChain == InitChain /\ [][NextChain]_vars

\* A modifier list Construct accepts: objects without the "Type" field.
ValidMods(m) == \A i \in 1..Len(m) : m[i].k = "obj" /\ "Type" \notin DOMAIN m[i].f

\* Number of wrapper layers of a nested node.
RECURSIVE Layers(_)
Layers(n) ==
    IF n.k = "obj" /\ "Type" \in DOMAIN n.f THEN 1 + Layers(n.f["Type"]) ELSE 0

(***************************************************************************)
(* C2: encode then decode.  Check of the node Construct built from         *)
(* (modifier list, terminal) hands the original modifier list to the       *)
(* modifier sub-pattern and the original terminal to the terminal          *)
(* sub-pattern.                                                            *)
(***************************************************************************)
C2_EncodeDecode ==
    (op = "opArrToChain.Construct+Check" /\ cfg.opType = Var("type")) =>
        /\ Len(calls) = 2
        /\ calls[1].pat = "opType" /\ calls[1].arg = in.typ
        /\ calls[2].pat = "opMods" /\ calls[2].arg = in.mods

(***************************************************************************)
(* C3: decode then encode.  Construct from the bindings that Check left    *)
(* on a nested node returns a node equal to that nested node.              *)
(***************************************************************************)
C3_DecodeEncode ==
    op = "opArrToChain.Check+Construct" => (res.err = "" /\ res.node = in)

\* Two wrapper layers were decoded and encoded again.
C3_Witness ==
    /\ op = "opArrToChain.Check+Construct"
    /\ cfg.opType = Var("type")
    /\ Layers(in) >= 2
    /\ res.err = ""

(***************************************************************************)
(* C4: nesting order.  Construct on [m1, ..., mN] and t returns m1 as the  *)
(* outermost wrapper and mN as the innermost one, holding t under "Type".  *)
(***************************************************************************)
RECURSIVE FirstOutermost(_, _)
FirstOutermost(m, t) ==
    IF m = <<>> THEN t
    ELSE Object(SetField(Head(m).f, "Type", FirstOutermost(Tail(m), t)))

C4_NestingOrder ==
    (op = "opArrToChain.Construct" /\ cfg.opType = Var("type")
        /\ ValidMods(in.mods.a)) =>
        (res.err = "" /\ res.node = FirstOutermost(in.mods.a, in.typ))

(***************************************************************************)
(* opMoveTrivias                                                           *)
(***************************************************************************)
\* strings.HasSuffix over the names the model uses.
Suffixed ==
    [Token   |-> {"OpenBraceToken", "SemicolonToken"},
     Keyword |-> {"ReturnKeyword"},
     Trivia  |-> {"SingleLineCommentTrivia", "EndOfLineTrivia",
                  "RegionDirectiveTrivia"}]

HasSuffix(str, suffix) == str \in Suffixed[suffix]

\* triviaField: the field with an array to put trivias into.
triviaField == [Block |-> "Statements", CompilationUnit |-> "Members"]

\* v.(nodes.Array): the elements and the ok flag of the type assertion of
\* field key of map f (a missing key reads as nil, which is no array).
AsArray(f, key) ==
    IF key \in DOMAIN f /\ f[key].k = "arr"
    THEN [ok |-> TRUE, a |-> f[key].a]
    ELSE [ok |-> FALSE, a |-> <<>>]

\* The three filter functions given to firstWithType (lines 1108-1110,
\* 1224-1226, 1278-1280), by name.
Filter(fnc, typ) ==
    CASE fnc = "NotTrivia" -> ~HasSuffix(typ, "Trivia")
      [] fnc = "IsFuncGroup" -> typ = typeFuncGroup
      [] fnc = "IsGroup" -> typ = typeGroup

\* firstWithType: index of the first element whose type satisfies the
\* filter, 0 when there is none (indices are 1-based here).
RECURSIVE firstWithType(_, _, _)
firstWithType(arr, fnc, i) ==
    IF i > Len(arr) THEN 0
    ELSE IF Filter(fnc, TypeOf(arr[i])) THEN i
    ELSE firstWithType(arr, fnc, i + 1)

\* The keys of the range loop (lines 1092-1105) that reach line 1108.
RelocKeys(f) ==
    {key \in DOMAIN f :
        /\ key = "ReturnType" \/ HasSuffix(key, "Token") \/ HasSuffix(key, "Keyword")
        /\ TypeOf(f[key]) = typeGroup
        /\ AsArray(f[key].f, "Nodes").ok}

\* The orders in which a range over the map can visit those keys.
KeyOrders(S) ==
    {o \in [1..Cardinality(S) -> S] : \A i, j \in DOMAIN o : i # j => o[i] # o[j]}

\* A bug: without a node among the elements, the elements are dropped.
RelocStep_drop(w, key) ==
    LET arr == w.obj[key].f["Nodes"].a
        ind == firstWithType(arr, "NotTrivia", 1)
    IN  IF ind = 0
        THEN [obj |-> SetField(w.obj, key, Null),
              leading |-> w.leading, trailing |-> w.trailing]
        ELSE [obj |-> SetField(w.obj, key, arr[ind]),
              leading |-> w.leading \o SubSeq(arr, 1, ind - 1),
              trailing |-> SubSeq(arr, ind + 1, Len(arr)) \o w.trailing]

\* A bug: what follows the node is put behind the held trailing list.
RelocStep_append(w, key) ==
    LET arr == w.obj[key].f["Nodes"].a
        ind == firstWithType(arr, "NotTrivia", 1)
    IN  IF ind = 0
        THEN [obj |-> SetField(w.obj, key, Null),
              leading |-> w.leading \o arr, trailing |-> w.trailing]
        ELSE [obj |-> SetField(w.obj, key, arr[ind]),
              leading |-> w.leading \o SubSeq(arr, 1, ind - 1),
              trailing |-> w.trailing \o SubSeq(arr, ind + 1, Len(arr))]

\* One iteration of the range loop that reaches line 1108, on the working
\* values w = [obj, leading, trailing].
RelocStep(w, key) ==
    LET arr == w.obj[key].f["Nodes"].a
        ind == firstWithType(arr, "NotTrivia", 1)
    IN  IF ind = 0
        THEN [obj |-> SetField(w.obj, key, Null),
              leading |-> w.leading \o arr, trailing |-> w.trailing]
        ELSE [obj |-> SetField(w.obj, key, arr[ind]),
              leading |-> w.leading \o SubSeq(arr, 1, ind - 1),
              trailing |-> SubSeq(arr, ind + 1, Len(arr)) \o w.trailing]

RECURSIVE RelocLoop(_, _, _)
RelocLoop(w, order, i) ==
    IF i > Len(order) THEN w
    ELSE RelocLoop(RelocStep(w, order[i]), order, i + 1)

\* A bug: the node is put in front of the leading trivia.
WrapInGroup_front(leading, obj, trailing) ==
    Typed(typeGroup, [Nodes |-> Array(<<Object(obj)>> \o leading \o trailing)])

\* Lines 1157-1172: the uast:Group around the node.
WrapInGroup(leading, obj, trailing) ==
    Typed(typeGroup, [Nodes |-> Array(leading \o <<Object(obj)>> \o trailing)])

\* A bug: the trivia are put in front of and behind the wrong way round.
JoinToField_swap(leading, obj, trailing, field) ==
    SetField(obj, field, Array(trailing \o obj[field].a \o leading))

\* Lines 1148-1153: the trivia joined to the designated field.
JoinToField(leading, obj, trailing, field) ==
    SetField(obj, field, Array(leading \o obj[field].a \o trailing))

\* opMoveTrivias.Check: [ok, err, st, calls]; order is the order in which
\* the range over the object's fields visits the fields it acts on.
opMoveTrivias_Check(sub, s, n, order) ==
    IF n.k # "obj" THEN [ok |-> FALSE, err |-> "", st |-> s, calls |-> <<>>]
    ELSE
    LET l0 == AsArray(n.f, "LeadingTrivia")
        t0 == AsArray(n.f, "TrailingTrivia")
        obj0 == IF l0.ok \/ t0.ok
                THEN DelField(DelField(n.f, "LeadingTrivia"), "TrailingTrivia")
                ELSE n.f
        w == RelocLoop([obj |-> obj0, leading |-> l0.a, trailing |-> t0.a], order, 1)
        modified == l0.ok \/ t0.ok \/ Len(order) > 0
        typ == TypeOf(Object(w.obj))
        Sub(x) == LET r == PatCheck(sub, s, x) IN
                  [ok |-> r.ok, err |-> r.err, st |-> r.st,
                   calls |-> <<Call("sub", x, r)>>]
    IN  IF Len(w.leading) = 0 /\ Len(w.trailing) = 0
        THEN IF ~modified
             THEN [ok |-> FALSE, err |-> "", st |-> s, calls |-> <<>>]
             ELSE Sub(Object(w.obj))
        ELSE IF typ \in DOMAIN triviaField
        THEN IF ~AsArray(w.obj, triviaField[typ]).ok
             THEN [ok |-> FALSE, err |-> "expected field to be an array",
                   st |-> s, calls |-> <<>>]
             ELSE Sub(Object(JoinToField(w.leading, w.obj, w.trailing,
                                         triviaField[typ])))
        ELSE Sub(WrapInGroup(w.leading, w.obj, w.trailing))

(***************************************************************************)
(* Inputs of the trivia relocator: objects put together field by field.    *)
(* Absent stands for a field the object does not have.                     *)
(***************************************************************************)
Absent == [k |-> "absent"]

\* The object with the fields of f that are not Absent.
Fields(f) == Object([x \in {y \in DOMAIN f : f[y] # Absent} |-> f[x]])

Trivia(typ, text) == Typed(typ, [Text |-> String(text)])

LeadElems == {Trivia("SingleLineCommentTrivia", "// a"), Trivia("EndOfLineTrivia", "1")}

TrailElems == {Trivia("SingleLineCommentTrivia", "// b"), Trivia("EndOfLineTrivia", "2")}

TriviaVals(elems) ==
    {Absent, Null} \cup {Array(a) : a \in SeqUpTo(elems, MaxTrivia)}

Token(typ) == Typed(typ, [Text |-> String(typ)])

Stmt == Typed("ReturnStatement", [Expression |-> String("x")])

BodyVals == {Absent, Null, Array(<<>>), Array(<<Stmt>>)}

Group(nodes) == Typed(typeGroup, [Nodes |-> nodes])

\* What a token-named field can hold after its own node was visited.
OpenBraceVals ==
    {Absent, Token("OpenBraceToken"),
     Group(Array(<<Trivia("SingleLineCommentTrivia", "// c"), Token("OpenBraceToken"),
                   Trivia("EndOfLineTrivia", "3")>>)),
     Group(Array(<<Trivia("RegionDirectiveTrivia", "#region")>>)),
     Group(Null)}

ReturnVals ==
    {Absent,
     Group(Array(<<Trivia("EndOfLineTrivia", "4"), Token("ReturnKeyword"),
                   Trivia("SingleLineCommentTrivia", "// d")>>))}

TriviaTypes == {"Block", "CompilationUnit", "ReturnStatement"}

BodyField(typ) == IF typ = "CompilationUnit" THEN "Members" ELSE "Statements"

TriviaNode(typ, lead, trail, body, brace, ret) ==
    Fields([x \in {KeyType, "LeadingTrivia", "TrailingTrivia", BodyField(typ),
                   "OpenBraceToken", "ReturnKeyword"} |->
              CASE x = KeyType -> String(typ)
                [] x = "LeadingTrivia" -> lead
                [] x = "TrailingTrivia" -> trail
                [] x = BodyField(typ) -> body
                [] x = "OpenBraceToken" -> brace
                [] x = "ReturnKeyword" -> ret])

TriviaInputs ==
    {TriviaNode(typ, lead, trail, body, brace, ret) :
        typ \in TriviaTypes, lead \in TriviaVals(LeadElems),
        trail \in TriviaVals(TrailElems), body \in BodyVals,
        brace \in OpenBraceVals, ret \in ReturnVals}
      \cup {Null, String("x"), Array(<<Stmt>>)}

TriviaConfigs == {[sub |-> p] : p \in {Var("group"), Is(Stmt)}}

InitTrivia == Start(TriviaInputs, TriviaConfigs)

MoveTriviasCheck ==
    /\ op = "init"
    /\ \E order \in KeyOrders(IF in.k = "obj" THEN RelocKeys(in.f) ELSE {}) :
        LET c == opMoveTrivias_Check(cfg.sub, st, in, order) IN
        /\ op' = "opMoveTrivias.Check"
        /\ st' = c.st
        /\ calls' = c.calls
        /\ res' = [ok |-> c.ok, err |-> c.err, node |-> Null]
    /\ UNCHANGED <<in, cfg, heap>>

NextTrivia == MoveTriviasCheck

SpecTrivia == InitTrivia /\ [][NextTrivia]_vars

\* The elements of an array-valued field, none for any other field.
ElemsOf(n, key) ==
    IF key \in DOMAIN n.f /\ n.f[key].k = "arr" THEN n.f[key].a ELSE <<>>

HasArray(n, key) == key \in DOMAIN n.f /\ n.f[key].k = "arr"

\* The node without its two trivia fields.
Stripped(n) == Object([x \in DOMAIN n.f \ {"LeadingTrivia", "TrailingTrivia"} |-> n.f[x]])

HoldsGroup(n) ==
    \E key \in DOMAIN n.f :
        /\ key = "ReturnType" \/ HasSuffix(key, "Token") \/ HasSuffix(key, "Keyword")
        /\ TypeOf(n.f[key]) = typeGroup

(***************************************************************************)
(* C5: wrapping.  An object whose type has no designated field, with       *)
(* leading trivia L and trailing trivia T not both empty and no token or   *)
(* keyword field holding a uast:Group, reaches the sub-pattern as a new    *)
(* uast:Group whose Nodes is L, then the node without its two trivia       *)
(* fields, then T.                                                         *)
(***************************************************************************)
C5_Wrapping ==
    (/\ op = "opMoveTrivias.Check"
     /\ in.k = "obj"
     /\ TypeOf(in) \notin DOMAIN triviaField
     /\ Len(ElemsOf(in, "LeadingTrivia")) + Len(ElemsOf(in, "TrailingTrivia")) > 0
     /\ ~HoldsGroup(in)) =>
        /\ Len(calls) = 1
        /\ calls[1].arg =
              Object([x \in {KeyType, "Nodes"} |->
                  IF x = KeyType THEN String(typeGroup)
                  ELSE Array(ElemsOf(in, "LeadingTrivia") \o <<Stripped(in)>>
                                \o ElemsOf(in, "TrailingTrivia"))])

\* Both lists are non-empty and the sub-pattern accepted the wrapper.
C5_Witness ==
    /\ op = "opMoveTrivias.Check"
    /\ in.k = "obj"
    /\ TypeOf(in) \notin DOMAIN triviaField
    /\ Len(ElemsOf(in, "LeadingTrivia")) = 2
    /\ Len(ElemsOf(in, "TrailingTrivia")) = 1
    /\ ~HoldsGroup(in)
    /\ res.ok
    /\ TypeOf(st["group"]) = typeGroup

(***************************************************************************)
(* C6: designated field.  An object whose type is in the designated-field  *)
(* table, whose designated field is an array F, with held leading L and    *)
(* trailing T not both empty, reaches the sub-pattern as the node itself   *)
(* (its own type, no uast:Group), without its two trivia fields and with   *)
(* the designated field L, then F, then T.  Without a uast:Group in a      *)
(* token or keyword field, L and T are the node's own trivia arrays and    *)
(* no other field changes; with one, L starts with the node's leading      *)
(* trivia and T ends with its trailing trivia.  (The two trivia fields are *)
(* removed whenever one of them holds an array.)                           *)
(***************************************************************************)
IsPrefix(p, a) == Len(p) <= Len(a) /\ SubSeq(a, 1, Len(p)) = p

IsSuffix(p, a) == Len(p) <= Len(a) /\ SubSeq(a, Len(a) - Len(p) + 1, Len(a)) = p

C6_DesignatedField ==
    (/\ op = "opMoveTrivias.Check"
     /\ in.k = "obj"
     /\ TypeOf(in) \in DOMAIN triviaField
     /\ HasArray(in, triviaField[TypeOf(in)])) =>
        LET field == triviaField[TypeOf(in)]
            F == in.f[field].a
            L == ElemsOf(in, "LeadingTrivia")
            T == ElemsOf(in, "TrailingTrivia")
            out == calls[1].arg
            new == out.f[field].a
        IN  /\ res.err = ""
            /\ (~HoldsGroup(in) /\ L \o T # <<>>) =>
                    /\ Len(calls) = 1
                    /\ out = Object(SetField(Stripped(in).f, field, Array(L \o F \o T)))
            /\ Len(calls) = 1 =>
                    /\ TypeOf(out) = TypeOf(in)
                    /\ DOMAIN out.f = DOMAIN in.f \
                        (IF HasArray(in, "LeadingTrivia") \/ HasArray(in, "TrailingTrivia")
                         THEN {"LeadingTrivia", "TrailingTrivia"} ELSE {})
                    /\ IsPrefix(L, new) /\ IsSuffix(T, new)
                    /\ \E i \in Len(L)..(Len(new) - Len(T) - Len(F)) :
                            SubSeq(new, i + 1, i + Len(F)) = F

\* Trivia on both sides were joined to the one statement of a block.
C6_Witness ==
    /\ op = "opMoveTrivias.Check"
    /\ in.k = "obj"
    /\ TypeOf(in) = "Block"
    /\ ~HoldsGroup(in)
    /\ Len(ElemsOf(in, "LeadingTrivia")) = 1
    /\ Len(ElemsOf(in, "TrailingTrivia")) = 1
    /\ Len(calls) = 1
    /\ res.ok
    /\ Len(ElemsOf(st["group"], "Statements")) = 3

\* x := v, then Then(x): the statements run in sequence, each on the
\* value the one before left.
With(v, Then(_)) == CHOOSE r \in {Then(x) : x \in {v}} : TRUE

(***************************************************************************)
(* opMergeGroups                                                           *)
(***************************************************************************)
\* A bug: the function group's own nodes go in front of the wrapper's.
MergeInto_front(leading, fgroup, trailing) ==
    Object(SetField(fgroup.f, "Nodes",
                    Array(fgroup.f["Nodes"].a \o leading \o trailing)))

\* Lines 1238-1244: the function group with leading ++ its Nodes ++ trailing.
MergeInto(leading, fgroup, trailing) ==
    Object(SetField(fgroup.f, "Nodes",
                    Array(leading \o fgroup.f["Nodes"].a \o trailing)))

\* opMergeGroups.checkGroup: [ok, err, st, calls].
checkGroup(sub, s, group) ==
    LET arr == AsArray(group.f, "Nodes")
        ind == firstWithType(arr.a, "IsFuncGroup", 1)
        fgroup == arr.a[ind]
        out == MergeInto(SubSeq(arr.a, 1, ind - 1), fgroup,
                         SubSeq(arr.a, ind + 1, Len(arr.a)))
        r == PatCheck(sub, s, out)
    IN  IF ~arr.ok
        THEN [ok |-> FALSE, err |-> "expected an array in Group.Nodes",
              st |-> s, calls |-> <<>>]
        ELSE IF ind = 0
        THEN [ok |-> FALSE, err |-> "", st |-> s, calls |-> <<>>]
        ELSE IF ~AsArray(fgroup.f, "Nodes").ok
        THEN [ok |-> FALSE, err |-> "expected an array in Group.Nodes",
              st |-> s, calls |-> <<>>]
        ELSE [ok |-> r.ok, err |-> r.err, st |-> r.st,
              calls |-> <<Call("sub", out, r)>>]

\* A bug: the inner group's nodes are appended to the slot.
Flatten_append(arr2, ind) ==
    SubSeq(arr2, 1, ind - 1) \o SubSeq(arr2, ind + 1, Len(arr2))
        \o arr2[ind].f["Nodes"].a

\* A bug: the slot is written back with the inner group still in it.
Flatten_keep(arr2, ind) == arr2

\* Lines 1291-1294: the inner group's nodes in place of the group.
Flatten(arr2, ind) ==
    SubSeq(arr2, 1, ind - 1) \o arr2[ind].f["Nodes"].a
        \o SubSeq(arr2, ind + 1, Len(arr2))

\* A bug: the loop reports a change whatever it saw.
FuncGroupLoop_touched(arr, i, modified) ==
    [arr |-> arr, modified |-> TRUE, err |-> ""]

\* The loop of checkFuncGroup (lines 1258-1300) from index i on:
\* [arr, modified, err].
RECURSIVE FuncGroupLoop(_, _, _)
FuncGroupLoop(arr, i, modified) ==
    IF i > Len(arr) THEN [arr |-> arr, modified |-> modified, err |-> ""]
    ELSE With(arr[i], LAMBDA v :
         IF v = Null
         THEN With(SubSeq(arr, 1, i - 1) \o SubSeq(arr, i + 1, Len(arr)),
                   LAMBDA rest : FuncGroupLoop(rest, i, TRUE))
         ELSE IF v.k # "arr" THEN FuncGroupLoop(arr, i + 1, modified)
         ELSE With(firstWithType(v.a, "IsGroup", 1), LAMBDA ind :
              IF ind = 0 THEN FuncGroupLoop(arr, i + 1, modified)
              ELSE IF ~AsArray(v.a[ind].f, "Nodes").ok
              THEN [arr |-> arr, modified |-> modified,
                    err |-> "expected an array in Group.Nodes"]
              ELSE With([arr EXCEPT ![i] = Array(Flatten(v.a, ind))],
                        LAMBDA set : FuncGroupLoop(set, i + 1, TRUE))))

\* opMergeGroups.checkFuncGroup: [ok, err, st, calls].
checkFuncGroup(sub, s, fgroup) ==
    With(AsArray(fgroup.f, "Nodes"), LAMBDA arr :
    IF ~arr.ok
    THEN [ok |-> FALSE, err |-> "expected an array in FuncGroup.Nodes",
          st |-> s, calls |-> <<>>]
    ELSE With(FuncGroupLoop(arr.a, 1, FALSE), LAMBDA l :
         IF l.err # ""
         THEN [ok |-> FALSE, err |-> l.err, st |-> s, calls |-> <<>>]
         ELSE IF ~l.modified
         THEN [ok |-> FALSE, err |-> "", st |-> s, calls |-> <<>>]
         ELSE With(Object(SetField(fgroup.f, "Nodes", Array(l.arr))), LAMBDA out :
              With(PatCheck(sub, s, out), LAMBDA r :
                   [ok |-> r.ok, err |-> r.err, st |-> r.st,
                    calls |-> <<Call("sub", out, r)>>]))))

\* opMergeGroups.Check: [ok, err, st, calls].
opMergeGroups_Check(sub, s, n) ==
    IF n.k # "obj" THEN [ok |-> FALSE, err |-> "", st |-> s, calls |-> <<>>]
    ELSE IF TypeOf(n) = typeGroup THEN checkGroup(sub, s, n)
    ELSE IF TypeOf(n) = typeFuncGroup THEN checkFuncGroup(sub, s, n)
    ELSE [ok |-> FALSE, err |-> "", st |-> s, calls |-> <<>>]

(***************************************************************************)
(* Inputs of the group merger.                                             *)
(***************************************************************************)
FuncGroup(nodes) == Typed(typeFuncGroup, [Nodes |-> nodes, Name |-> String("f")])

Alias == Typed("uast:Alias", [Name |-> String("f")])

Attr == Typed("Attribute", [Name |-> String("a")])

\* What a slot of a function group's Nodes can hold.
SlotElems ==
    {Null, Alias, Array(<<>>), Array(<<Attr>>),
     Array(<<Attr, Group(Array(<<Comment("a"), Attr>>)), Stmt>>),
     Array(<<Group(Array(<<Comment("a")>>)), Group(Array(<<Comment("b")>>))>>),
     Array(<<Group(Array(<<Group(Array(<<Comment("a")>>))>>))>>),
     Array(<<Group(Null)>>)}

FuncGroups ==
    {FuncGroup(Array(a)) : a \in SeqUpTo(SlotElems, MaxNodes)} \cup {FuncGroup(Null)}

\* What a uast:Group's Nodes can hold.
GroupElems ==
    {Comment("a"), Comment("b"), Null,
     FuncGroup(Array(<<Array(<<Attr>>), Alias>>)),
     Typed(typeFuncGroup, [Nodes |-> Array(<<Alias>>)]),
     FuncGroup(Null)}

Groups == {Group(Array(a)) : a \in SeqUpTo(GroupElems, MaxNodes)} \cup {Group(Null)}

MergeInputs == FuncGroups \cup Groups \cup {Null, Stmt, Array(<<Alias>>)}

MergeConfigs == {[sub |-> p] : p \in {Var("group"), Is(Stmt)}}

InitMerge == Start(MergeInputs, MergeConfigs)

MergeGroupsCheck ==
    /\ op = "init"
    /\ LET c == opMergeGroups_Check(cfg.sub, st, in) IN
        /\ op' = "opMergeGroups.Check"
        /\ st' = c.st
        /\ calls' = c.calls
        /\ res' = [ok |-> c.ok, err |-> c.err, node |-> Null]
    /\ UNCHANGED <<in, cfg, heap>>

NextMerge == MergeGroupsCheck

SpecMerge == InitMerge /\ [][NextMerge]_vars

\* The indices of the elements of a that have the given type.
Typed_At(a, typ) == {i \in 1..Len(a) : TypeOf(a[i]) = typ}

(***************************************************************************)
(* C7: a uast:Group whose Nodes holds a uast:FunctionGroup (the first at   *)
(* index i, with a Nodes array of its own) reaches the sub-pattern as that *)
(* function group, all fields kept, except that its Nodes is the           *)
(* wrapper's items before i, then its own Nodes, then the wrapper's items  *)
(* after i.  The uast:Group is gone.                                       *)
(***************************************************************************)
C7_GroupIntoFuncGroup ==
    (/\ op = "opMergeGroups.Check"
     /\ TypeOf(in) = typeGroup
     /\ HasArray(in, "Nodes")
     /\ Typed_At(in.f["Nodes"].a, typeFuncGroup) # {}
     /\ HasArray(in.f["Nodes"].a[FirstOf(Typed_At(in.f["Nodes"].a, typeFuncGroup))],
                 "Nodes")) =>
        LET items == in.f["Nodes"].a
            i == FirstOf(Typed_At(items, typeFuncGroup))
            fg == items[i]
            out == calls[1].arg
        IN  /\ Len(calls) = 1
            /\ TypeOf(out) = typeFuncGroup
            /\ DOMAIN out.f = DOMAIN fg.f
            /\ \A x \in DOMAIN fg.f \ {"Nodes"} : out.f[x] = fg.f[x]
            /\ out.f["Nodes"] =
                  Array(SubSeq(items, 1, i - 1) \o fg.f["Nodes"].a
                            \o SubSeq(items, i + 1, Len(items)))

\* A function group in the middle of a wrapper, with items on both sides.
C7_Witness ==
    /\ op = "opMergeGroups.Check"
    /\ TypeOf(in) = typeGroup
    /\ HasArray(in, "Nodes")
    /\ Len(in.f["Nodes"].a) = 3
    /\ Typed_At(in.f["Nodes"].a, typeFuncGroup) = {2}
    /\ res.ok
    /\ Len(st["group"].f["Nodes"].a) = 4

(***************************************************************************)
(* C8: a uast:FunctionGroup whose Nodes holds a null, or an array entry    *)
(* holding a uast:Group, reaches the sub-pattern with Nodes equal to the   *)
(* input Nodes without the null entries, order kept, where each array      *)
(* entry that holds a uast:Group has the first such group replaced in      *)
(* place by that group's own Nodes; every other entry is unchanged.        *)
(***************************************************************************)
NotNull(e) == e # Null

SplicedSlot(e) ==
    IF e.k = "arr" /\ Typed_At(e.a, typeGroup) # {}
    THEN LET j == FirstOf(Typed_At(e.a, typeGroup)) IN
         Array(SubSeq(e.a, 1, j - 1) \o e.a[j].f["Nodes"].a
                  \o SubSeq(e.a, j + 1, Len(e.a)))
    ELSE e

Compacted(a) ==
    [i \in DOMAIN SelectSeq(a, NotNull) |-> SplicedSlot(SelectSeq(a, NotNull)[i])]

\* Every uast:Group that is the first of its slot has a Nodes array.
SlotsWellFormed(a) ==
    \A i \in 1..Len(a) :
        (a[i].k = "arr" /\ Typed_At(a[i].a, typeGroup) # {}) =>
            HasArray(a[i].a[FirstOf(Typed_At(a[i].a, typeGroup))], "Nodes")

NeedsCompaction(a) ==
    \E i \in 1..Len(a) :
        a[i] = Null \/ (a[i].k = "arr" /\ Typed_At(a[i].a, typeGroup) # {})

C8_FuncGroupCompaction ==
    (/\ op = "opMergeGroups.Check"
     /\ TypeOf(in) = typeFuncGroup
     /\ HasArray(in, "Nodes")
     /\ SlotsWellFormed(in.f["Nodes"].a)
     /\ NeedsCompaction(in.f["Nodes"].a)) =>
        /\ Len(calls) = 1
        /\ calls[1].arg =
              Object(SetField(in.f, "Nodes", Array(Compacted(in.f["Nodes"].a))))

\* Nulls around a slot that holds a group between other elements.
C8_Witness ==
    /\ op = "opMergeGroups.Check"
    /\ TypeOf(in) = typeFuncGroup
    /\ HasArray(in, "Nodes")
    /\ Len(in.f["Nodes"].a) = 3
    /\ in.f["Nodes"].a[1] = Null
    /\ in.f["Nodes"].a[2].k = "arr"
    /\ Typed_At(in.f["Nodes"].a[2].a, typeGroup) = {2}
    /\ in.f["Nodes"].a[3] = Alias
    /\ res.ok
    /\ Len(st["group"].f["Nodes"].a) = 2
    /\ Len(st["group"].f["Nodes"].a[1].a) = 4

(***************************************************************************)
(* Normalize: the two structural passes, bottom-up over a tree.            *)
(***************************************************************************)
\* The order in which a node's token-named fields are visited, as the one
\* order the pass visits all such field names in.
OrderOf(policy, n) ==
    IF n.k = "obj"
    THEN LET Acts(key) == key \in RelocKeys(n.f) IN SelectSeq(policy, Acts)
    ELSE <<>>

\* Map(op{Var("group")}, Check(Has{...}, Var("group"))) on one node, until
\* it matches no more: [err, node].
RECURSIVE RuleAt(_, _, _)
RuleAt(rule, policy, n) ==
    LET c == IF rule = "opMoveTrivias"
             THEN opMoveTrivias_Check(Var("group"), NoVars, n, OrderOf(policy, n))
             ELSE opMergeGroups_Check(Var("group"), NoVars, n)
    IN  IF c.err # "" THEN [err |-> c.err, node |-> n]
        ELSE IF ~c.ok THEN [err |-> "", node |-> n]
        ELSE RuleAt(rule, policy, PatConstruct(Var("group"), c.st).node)

\* One stage over a tree, depth-first and post-order: the children are
\* transformed before their parent is tested; an error aborts the stage.
RECURSIVE Stage(_, _, _)
Stage(rule, policy, n) ==
    LET kids == IF n.k = "obj" THEN [x \in DOMAIN n.f |-> Stage(rule, policy, n.f[x])]
                ELSE IF n.k = "arr" THEN [i \in DOMAIN n.a |-> Stage(rule, policy, n.a[i])]
                ELSE <<>>
        n1 == IF n.k = "obj" THEN Object([x \in DOMAIN n.f |-> kids[x].node])
              ELSE IF n.k = "arr" THEN Array([i \in DOMAIN n.a |-> kids[i].node])
              ELSE n
    IN  IF \E x \in DOMAIN kids : kids[x].err # ""
        THEN [err |-> "aborted", node |-> n]
        ELSE RuleAt(rule, policy, n1)

(***************************************************************************)
(* Input trees of Normalize.                                               *)
(***************************************************************************)
\* A structured trivia that carries trivia of its own.
RegionTrivia ==
    Typed("RegionDirectiveTrivia",
          [LeadingTrivia |-> Array(<<Trivia("EndOfLineTrivia", "1")>>)])

TokenLeads ==
    {Array(a) : a \in SeqUpTo({Trivia("SingleLineCommentTrivia", "// a"), RegionTrivia},
                              MaxTrivia)}

TokenTrails == {Absent, Array(<<>>), Array(<<Trivia("EndOfLineTrivia", "2")>>)}

TriviaTokens ==
    {Fields([x \in {KeyType, "LeadingTrivia", "TrailingTrivia"} |->
               CASE x = KeyType -> String("OpenBraceToken")
                 [] x = "LeadingTrivia" -> lead
                 [] x = "TrailingTrivia" -> trail]) :
        lead \in TokenLeads, trail \in TokenTrails}

TriviaTrees ==
    {TriviaNode(typ, lead, Absent, body, brace, ret) :
        typ \in {"Block", "ReturnStatement"},
        lead \in {Absent, Array(<<Trivia("SingleLineCommentTrivia", "// b")>>)},
        body \in {Array(<<>>), Array(<<Stmt>>)},
        brace \in TriviaTokens \cup {Absent},
        ret \in {Absent,
                 Fields([x \in {KeyType, "TrailingTrivia"} |->
                     IF x = KeyType THEN String("ReturnKeyword")
                     ELSE Array(<<Trivia("EndOfLineTrivia", "3")>>)])}}

NormalizeInputs == TriviaTrees \cup Groups \cup FuncGroups

TokenKeys == {"OpenBraceToken", "ReturnKeyword"}

NormalizeConfigs == {[policy |-> o] : o \in KeyOrders(TokenKeys)}

InitNormalize == Start(NormalizeInputs, NormalizeConfigs)

\* The first stage of Normalize (lines 18-27).
NormalizeMoveTrivias ==
    /\ op = "init"
    /\ LET r == Stage("opMoveTrivias", cfg.policy, in) IN
        /\ op' = "Normalize.1"
        /\ res' = [ok |-> r.err = "", err |-> r.err, node |-> r.node]
    /\ UNCHANGED <<in, cfg, st, calls, heap>>

\* The second stage (line 28), of which the model has the group merger
\* (lines 980-990).
NormalizeMergeGroups ==
    /\ op = "Normalize.1"
    /\ res.err = ""
    /\ LET r == Stage("opMergeGroups", cfg.policy, res.node) IN
        /\ op' = "Normalize.2"
        /\ res' = [ok |-> r.err = "", err |-> r.err, node |-> r.node]
    /\ UNCHANGED <<in, cfg, st, calls, heap>>

NextNormalize == NormalizeMoveTrivias \/ NormalizeMergeGroups

SpecNormalize == InitNormalize /\ [][NextNormalize]_vars

\* A tree's nodes.
RECURSIVE SubNodes(_)
SubNodes(n) ==
    {n} \cup
    (IF n.k = "obj" THEN UNION {SubNodes(n.f[x]) : x \in DOMAIN n.f}
     ELSE IF n.k = "arr" THEN UNION {SubNodes(n.a[i]) : i \in DOMAIN n.a}
     ELSE {})

\* Both operators report no-match on the node.
NoMatch(m) ==
    /\ \A o \in KeyOrders(IF m.k = "obj" THEN RelocKeys(m.f) ELSE {}) :
          LET c == opMoveTrivias_Check(Var("group"), NoVars, m, o) IN
          ~c.ok /\ c.err = ""
    /\ LET c == opMergeGroups_Check(Var("group"), NoVars, m) IN ~c.ok /\ c.err = ""

(***************************************************************************)
(* C9: idempotence.  In the tree the two passes return, the trivia         *)
(* relocator and the group merger report no-match on every node, no        *)
(* uast:Group holds a node whose type has a designated field, and no       *)
(* uast:Group directly holds a uast:FunctionGroup.                         *)
(***************************************************************************)
C9_Idempotent ==
    (op = "Normalize.2" /\ res.err = "") =>
        \A m \in SubNodes(res.node) :
            /\ NoMatch(m)
            /\ (TypeOf(m) = typeGroup /\ HasArray(m, "Nodes")) =>
                  \A i \in 1..Len(m.f["Nodes"].a) :
                      /\ TypeOf(m.f["Nodes"].a[i]) \notin DOMAIN triviaField
                      /\ TypeOf(m.f["Nodes"].a[i]) # typeFuncGroup

(***************************************************************************)
(* Memory.  A nodes.Object is a reference to a map and a nodes.Array is a  *)
(* slice (address of the backing array, offset, length, capacity); the     *)
(* heap holds the maps and the backing arrays.  Scalars are held by value. *)
(***************************************************************************)
Ref(at) == [k |-> "ref", at |-> at]

Slice(at, off, len, cap) ==
    [k |-> "slice", at |-> at, off |-> off, len |-> len, cap |-> cap]

NilSlice == Slice(0, 0, 0, 0)

\* A new cell: [h, at].
Alloc(h, cell) == [h |-> Append(h, cell), at |-> Len(h) + 1]

\* The elements of a slice.
Elems(h, s) ==
    IF s.len = 0 THEN <<>> ELSE SubSeq(h[s.at].a, s.off + 1, s.off + s.len)

\* make(nodes.Array, len(elems), cap) filled with elems: [h, s].
MakeArr(h, elems, cap) ==
    With(elems, LAMBDA e :
    With(Alloc(h, [k |-> "arr", a |-> e \o [i \in 1..(cap - Len(e)) |-> Null]]),
         LAMBDA a : [h |-> a.h, s |-> Slice(a.at, 0, Len(e), cap)]))

\* s[lo:hi:max] (0-based, as in Go).
SubSlice(s, lo, hi, max) == Slice(s.at, s.off + lo, hi - lo, max - lo)

\* append(s, elems...): in place while the capacity lasts, else into a new
\* backing array: [h, s].
AppendTo(h, s, elems) ==
    With(elems, LAMBDA e :
    IF e = <<>> THEN [h |-> h, s |-> s]
    ELSE IF s.len + Len(e) <= s.cap
    THEN [h |-> [h EXCEPT ![s.at].a =
                    SubSeq(@, 1, s.off + s.len) \o e
                        \o SubSeq(@, s.off + s.len + Len(e) + 1, Len(@))],
          s |-> Slice(s.at, s.off, s.len + Len(e), s.cap)]
    ELSE MakeArr(h, Elems(h, s) \o e, s.len + Len(e)))

\* Array.CloneList: [h, s].
CloneList(h, s) == MakeArr(h, Elems(h, s), s.len)

\* Object.CloneObject: [h, at].
CloneObject(h, at) == Alloc(h, h[at])

\* obj[key] = val.
MapSet(h, at, key, val) == [h EXCEPT ![at].f = SetField(@, key, val)]

\* delete(obj, key).
MapDelete(h, at, key) == [h EXCEPT ![at].f = DelField(@, key)]

\* arr[i] = val (i 0-based).
SliceSet(h, s, i, val) == [h EXCEPT ![s.at].a[s.off + i + 1] = val]

\* A tree put into memory, every array with slack unused slots of
\* capacity: [h, v].
RECURSIVE Load(_, _, _)
RECURSIVE LoadSeq(_, _, _, _, _)
RECURSIVE LoadFields(_, _, _, _, _)
Load(h, n, slack) ==
    IF n.k = "obj"
    THEN With(LoadFields(h, n.f, DOMAIN n.f, <<>>, slack), LAMBDA kids :
         With(Alloc(kids.h, [k |-> "obj", f |-> kids.f]), LAMBDA a :
         [h |-> a.h, v |-> Ref(a.at)]))
    ELSE IF n.k = "arr"
    THEN With(LoadSeq(h, n.a, 1, <<>>, slack), LAMBDA kids :
         With(MakeArr(kids.h, kids.vals, Len(n.a) + slack), LAMBDA m :
         [h |-> m.h, v |-> m.s]))
    ELSE [h |-> h, v |-> n]

LoadSeq(h, a, i, vals, slack) ==
    IF i > Len(a) THEN [h |-> h, vals |-> vals]
    ELSE With(Load(h, a[i], slack), LAMBDA l :
         With(Append(vals, l.v), LAMBDA vs :
         LoadSeq(l.h, a, i + 1, vs, slack)))

LoadFields(h, f, keys, acc, slack) ==
    IF keys = {} THEN [h |-> h, f |-> acc]
    ELSE With(CHOOSE x \in keys : TRUE, LAMBDA key :
         With(Load(h, f[key], slack), LAMBDA l :
         With(SetField(acc, key, l.v), LAMBDA fs :
         LoadFields(l.h, f, keys \ {key}, fs, slack))))

\* The tree a value stands for.
RECURSIVE Deref(_, _)
Deref(h, v) ==
    IF v.k = "ref"
    THEN Object([x \in DOMAIN h[v.at].f |-> Deref(h, h[v.at].f[x])])
    ELSE IF v.k = "slice"
    THEN Array([i \in 1..v.len |-> Deref(h, h[v.at].a[v.off + i])])
    ELSE v

\* v.(nodes.Array) of field key of the map at an address: [ok, s].
AsSlice(h, at, key) ==
    IF key \in DOMAIN h[at].f /\ h[at].f[key].k = "slice"
    THEN [ok |-> TRUE, s |-> h[at].f[key]]
    ELSE [ok |-> FALSE, s |-> NilSlice]

(***************************************************************************)
(* The operators again, on memory: what each call allocates and what it    *)
(* writes.  Each returns the heap after the call, whether the sub-pattern  *)
(* is reached, the error, and the value handed to the sub-pattern (for     *)
(* Construct: the value returned).                                         *)
(***************************************************************************)
Result(h, ok, err, out) == [h |-> h, ok |-> ok, err |-> err, out |-> out]

\* opArrHasKeyword.Check: rest is made anew and copied into.
opArrHasKeyword_Check_mem(h, keyword, n) ==
    With(IF n.k = "slice" THEN n ELSE NilSlice, LAMBDA arr :
    With(ScanKeyword(Deref(h, arr).a, keyword, 1), LAMBDA i :
    IF i = 0 THEN Result(h, TRUE, "", n)
    ELSE With(MakeArr(h, RemoveAt(Elems(h, arr), i), arr.len - 1), LAMBDA m :
         Result(m.h, TRUE, "", m.s))))

\* A bug: the field is never found.
HasField_never(h, at, key) == FALSE

\* _, ok := mod[key] (line 161).
HasField(h, at, key) == key \in DOMAIN h[at].f

\* The loop of opArrToChain.Construct: each modifier is cloned, the clone
\* gets the "Type" field.
RECURSIVE WrapMods_mem(_, _, _, _)
WrapMods_mem(h, mods, i, typ) ==
    IF i > Len(mods) THEN Result(h, TRUE, "", typ)
    ELSE IF mods[i].k # "ref" THEN Result(h, FALSE, "unexpected type", Null)
    ELSE With(CloneObject(h, mods[i].at), LAMBDA c :
         IF HasField(c.h, c.at, "Type")
         THEN Result(c.h, FALSE, "unexpected field in modifier: Type", Null)
         ELSE With(MapSet(c.h, c.at, "Type", typ), LAMBDA h1 :
              WrapMods_mem(h1, mods, i + 1, Ref(c.at))))

opArrToChain_Construct_mem(h, mods, typ) ==
    IF mods.k # "slice" THEN Result(h, FALSE, "unexpected type", Null)
    ELSE With(Elems(h, mods), LAMBDA e : WrapMods_mem(h, e, 1, typ))

\* dropNils.Check: out is made anew with the capacity of the input.
dropNils_Check_mem(h, n) ==
    IF n.k # "slice" /\ n # Null THEN Result(h, FALSE, "", Null)
    ELSE With(IF n.k = "slice" THEN n ELSE NilSlice, LAMBDA arr :
         With(MakeArr(h, SelectSeq(Elems(h, arr), NotNull), arr.len), LAMBDA m :
         Result(m.h, TRUE, "", m.s)))

\* A bug: the clone is forgotten.
OwnObject_shared(h, at, modified) == [h |-> h, at |-> at]

\* if !modified { obj = obj.CloneObject() } (lines 1127-1130): [h, at].
OwnObject(h, at, modified) ==
    IF modified THEN [h |-> h, at |-> at] ELSE CloneObject(h, at)

\* if !modified { arr = arr.CloneList() } (lines 1264-1267, 1295-1298): [h, s].
OwnList(h, s, modified) ==
    IF modified THEN [h |-> h, s |-> s] ELSE CloneList(h, s)

\* One iteration of opMoveTrivias.Check's range loop that reaches line
\* 1108, on w = [h, obj, leading, trailing, modified].
RelocStep_mem(w, key) ==
    With(w.h[w.h[w.obj].f[key].at].f["Nodes"], LAMBDA arr :
    With(firstWithType(Deref(w.h, arr).a, "NotTrivia", 1), LAMBDA ind :
    With(IF ind = 0 THEN Null ELSE Elems(w.h, arr)[ind], LAMBDA node :
    With(CloneList(w.h, w.leading), LAMBDA lc :
    With(AppendTo(lc.h, lc.s,
                  IF ind = 0 THEN Elems(lc.h, arr)
                  ELSE Elems(lc.h, SubSlice(arr, 0, ind - 1, arr.cap))), LAMBDA l :
    With(IF ind = 0 THEN [h |-> l.h, s |-> w.trailing]
         ELSE AppendTo(l.h, SubSlice(arr, ind, arr.len, arr.len),
                       Elems(l.h, w.trailing)), LAMBDA t :
    With(OwnObject(t.h, w.obj, w.modified), LAMBDA o :
    [h |-> MapSet(o.h, o.at, key, node), obj |-> o.at,
     leading |-> l.s, trailing |-> t.s, modified |-> TRUE])))))))

RECURSIVE RelocLoop_mem(_, _, _)
RelocLoop_mem(w, order, i) ==
    IF i > Len(order) THEN w
    ELSE With(RelocStep_mem(w, order[i]), LAMBDA w1 :
         RelocLoop_mem(w1, order, i + 1))

\* Lines 1078-1087: the trivia arrays are taken and their fields deleted
\* from a clone: [h, obj, leading, trailing, modified].
TakeTrivia_mem(h, at) ==
    With(AsSlice(h, at, "LeadingTrivia"), LAMBDA l0 :
    With(AsSlice(h, at, "TrailingTrivia"), LAMBDA t0 :
    IF l0.ok \/ t0.ok
    THEN With(CloneObject(h, at), LAMBDA c :
         [h |-> MapDelete(MapDelete(c.h, c.at, "LeadingTrivia"),
                          c.at, "TrailingTrivia"),
          obj |-> c.at, leading |-> l0.s, trailing |-> t0.s, modified |-> TRUE])
    ELSE [h |-> h, obj |-> at, leading |-> l0.s, trailing |-> t0.s,
          modified |-> FALSE]))

\* Lines 1142-1155: the trivia joined to the designated field.
JoinToField_mem(w, field) ==
    With(AsSlice(w.h, w.obj, field), LAMBDA old :
    IF ~old.ok THEN Result(w.h, FALSE, "expected field to be an array", Null)
    ELSE With(MakeArr(w.h, Elems(w.h, w.leading) \o Elems(w.h, old.s)
                               \o Elems(w.h, w.trailing),
                      w.leading.len + old.s.len + w.trailing.len), LAMBDA arr :
         Result(MapSet(arr.h, w.obj, field, arr.s), TRUE, "", Ref(w.obj))))

\* Lines 1157-1173: the uast:Group around the node.
WrapInGroup_mem(w) ==
    With(MakeArr(w.h, Elems(w.h, w.leading) \o <<Ref(w.obj)>>
                          \o Elems(w.h, w.trailing),
                 w.leading.len + 1 + w.trailing.len), LAMBDA arr :
    With(Alloc(arr.h, [k |-> "obj", f |-> [x \in {KeyType} |-> String(typeGroup)]]),
         LAMBDA group :
    Result(MapSet(group.h, group.at, "Nodes", arr.s), TRUE, "", Ref(group.at))))

opMoveTrivias_Check_mem(h, n, order) ==
    IF n.k # "ref" THEN Result(h, FALSE, "", Null)
    ELSE With(TakeTrivia_mem(h, n.at), LAMBDA w0 :
         With(RelocLoop_mem(w0, order, 1), LAMBDA w :
         With(TypeOf(Deref(w.h, Ref(w.obj))), LAMBDA typ :
         IF w.leading.len = 0 /\ w.trailing.len = 0
         THEN IF ~w.modified THEN Result(h, FALSE, "", Null)
              ELSE Result(w.h, TRUE, "", Ref(w.obj))
         ELSE IF typ \in DOMAIN triviaField
         THEN JoinToField_mem(w, triviaField[typ])
         ELSE WrapInGroup_mem(w))))

\* Lines 1229-1246 of checkGroup: the function group at index ind of the
\* group's array arr takes the group's other nodes around its own.
MergeInto_mem(h, arr, ind) ==
    With(Elems(h, arr), LAMBDA e :
    With(AsSlice(h, e[ind].at, "Nodes"), LAMBDA arr2 :
    IF ~arr2.ok THEN Result(h, FALSE, "expected an array in Group.Nodes", Null)
    ELSE With(MakeArr(h, SubSeq(e, 1, ind - 1) \o Elems(h, arr2.s)
                             \o SubSeq(e, ind + 1, Len(e)),
                      arr.len - 1 + arr2.s.len), LAMBDA out :
         With(CloneObject(out.h, e[ind].at), LAMBDA c :
         Result(MapSet(c.h, c.at, "Nodes", out.s), TRUE, "", Ref(c.at))))))

checkGroup_mem(h, at) ==
    With(AsSlice(h, at, "Nodes"), LAMBDA arr :
    IF ~arr.ok THEN Result(h, FALSE, "expected an array in Group.Nodes", Null)
    ELSE With(firstWithType(Deref(h, arr.s).a, "IsFuncGroup", 1), LAMBDA ind :
         IF ind = 0 THEN Result(h, FALSE, "", Null)
         ELSE MergeInto_mem(h, arr.s, ind)))

\* Lines 1262-1270 of checkFuncGroup: the nil at (1-based) index i is
\* removed from the list, which is cloned first if it is still the input's.
RemoveNil_mem(w, i) ==
    With(OwnList(w.h, w.arr, w.modified), LAMBDA o :
    With(AppendTo(o.h, SubSlice(o.s, 0, i - 1, o.s.cap),
                  Elems(o.h, SubSlice(o.s, i, o.s.len, o.s.cap))), LAMBDA a :
    [h |-> a.h, arr |-> a.s, modified |-> TRUE, err |-> ""]))

\* Lines 1284-1299 of checkFuncGroup: the group at index ind of the
\* secondary array v, the list's element i, is flattened into a new array
\* that takes v's place.
Flatten_mem(w, i, v, ind) ==
    With(Elems(w.h, v), LAMBDA e :
    With(AsSlice(w.h, e[ind].at, "Nodes"), LAMBDA arr3 :
    IF ~arr3.ok THEN [w EXCEPT !.err = "expected an array in Group.Nodes"]
    ELSE With(MakeArr(w.h, SubSeq(e, 1, ind - 1) \o Elems(w.h, arr3.s)
                               \o SubSeq(e, ind + 1, Len(e)),
                      v.len - 1 + arr3.s.len), LAMBDA out :
         With(OwnList(out.h, w.arr, w.modified), LAMBDA o :
         [h |-> SliceSet(o.h, o.s, i - 1, out.s), arr |-> o.s,
          modified |-> TRUE, err |-> ""]))))

\* The loop of checkFuncGroup on w = [h, arr, modified, err], from the
\* (1-based) index i.
RECURSIVE FuncGroupLoop_mem(_, _)
FuncGroupLoop_mem(w, i) ==
    IF i > w.arr.len THEN w
    ELSE With(Elems(w.h, w.arr)[i], LAMBDA v :
         IF v = Null
         THEN With(RemoveNil_mem(w, i), LAMBDA w1 : FuncGroupLoop_mem(w1, i))
         ELSE IF v.k # "slice" THEN FuncGroupLoop_mem(w, i + 1)
         ELSE With(firstWithType(Deref(w.h, v).a, "IsGroup", 1), LAMBDA ind :
              IF ind = 0 THEN FuncGroupLoop_mem(w, i + 1)
              ELSE With(Flatten_mem(w, i, v, ind), LAMBDA w1 :
                   IF w1.err # "" THEN w1 ELSE FuncGroupLoop_mem(w1, i + 1))))

checkFuncGroup_mem(h, at) ==
    With(AsSlice(h, at, "Nodes"), LAMBDA arr :
    IF ~arr.ok THEN Result(h, FALSE, "expected an array in FuncGroup.Nodes", Null)
    ELSE With(FuncGroupLoop_mem([h |-> h, arr |-> arr.s, modified |-> FALSE,
                                 err |-> ""], 1), LAMBDA w :
         IF w.err # "" THEN Result(w.h, FALSE, w.err, Null)
         ELSE IF ~w.modified THEN Result(h, FALSE, "", Null)
         ELSE With(CloneObject(w.h, at), LAMBDA c :
              Result(MapSet(c.h, c.at, "Nodes", w.arr), TRUE, "", Ref(c.at)))))

opMergeGroups_Check_mem(h, n) ==
    IF n.k # "ref" THEN Result(h, FALSE, "", Null)
    ELSE With(TypeOf(Deref(h, n)), LAMBDA typ :
         IF typ = typeGroup THEN checkGroup_mem(h, n.at)
         ELSE IF typ = typeFuncGroup THEN checkFuncGroup_mem(h, n.at)
         ELSE Result(h, FALSE, "", Null))

(***************************************************************************)
(* Calls on memory.  The input tree is put into memory, each array with    *)
(* cfg.slack unused slots of capacity (an append within the capacity       *)
(* writes into the backing array).  in.n is the node given to the call;    *)
(* for opArrToChain.Construct it is the binding state the call reads.      *)
(***************************************************************************)
CallOf(name, n, keyword) == [k |-> "call", name |-> name, n |-> n, keyword |-> keyword]

\* The calls that hand the node on as it is: opArrHasKeyword.Construct
\* (lines 80-105), opArrToChain.Check (121-135), dropNils.Construct
\* (1018-1020), opMoveTrivias.Construct (1176-1180) and
\* opMergeGroups.Construct (1309-1313).
PassCalls ==
    {"opArrHasKeyword.Construct", "opArrToChain.Check", "dropNils.Construct",
     "opMoveTrivias.Construct", "opMergeGroups.Construct"}

PassInputs == {Null, Stmt, Array(<<Stmt, Null>>), Group(Array(<<Stmt>>))}

Bindings(pair) == Object([rest |-> pair.mods, type |-> pair.typ])

\* Inputs of the trivia relocator with every way its fields are written.
MemTrivias ==
    {TriviaNode(typ, lead, trail, body, brace, ret) :
        typ \in TriviaTypes,
        lead \in {Absent, Null, Array(<<Trivia("EndOfLineTrivia", "1")>>),
                  Array(<<Trivia("SingleLineCommentTrivia", "// a"),
                          Trivia("EndOfLineTrivia", "1")>>)},
        trail \in {Absent, Array(<<>>), Array(<<Trivia("EndOfLineTrivia", "2")>>)},
        body \in BodyVals, brace \in OpenBraceVals, ret \in ReturnVals}
      \cup {Null, String("x"), Array(<<Stmt>>)}

MemInputs ==
    {CallOf("opArrHasKeyword.Check", n, kw) : n \in KwInputs, kw \in Keywords}
        \cup {CallOf("opArrToChain.Construct", Bindings(p), "") : p \in ChainPairs}
        \cup {CallOf("dropNils.Check", n, "") : n \in KwInputs}
        \cup {CallOf("opMoveTrivias.Check", n, "") : n \in MemTrivias}
        \cup {CallOf("opMergeGroups.Check", n, "") : n \in MergeInputs}
        \cup {CallOf(c, n, "") : c \in PassCalls, n \in PassInputs}

MemConfigs == {[slack |-> s] : s \in {0, 1}}

\* The memory before the call and the input in it: [h, v].
Heap0 == Load(<<>>, in.n, cfg.slack)

InitMemory ==
    /\ op = "init"
    /\ in \in MemInputs
    /\ cfg \in MemConfigs
    /\ st = NoVars
    /\ calls = <<>>
    /\ res = [ok |-> FALSE, err |-> "", node |-> Null]
    /\ heap = Heap0.h

\* The call is over: the memory it leaves and what it handed on.
Returns(r) ==
    /\ op' = in.name
    /\ heap' = r.h
    /\ res' = [ok |-> r.ok, err |-> r.err, node |-> r.out]
    /\ UNCHANGED <<in, cfg, st, calls>>

MemArrHasKeywordCheck ==
    /\ op = "init"
    /\ in.name = "opArrHasKeyword.Check"
    /\ Returns(opArrHasKeyword_Check_mem(heap, in.keyword, Heap0.v))

MemArrToChainConstruct ==
    /\ op = "init"
    /\ in.name = "opArrToChain.Construct"
    /\ Returns(opArrToChain_Construct_mem(heap, heap[Heap0.v.at].f["rest"],
                                          heap[Heap0.v.at].f["type"]))

MemDropNilsCheck ==
    /\ op = "init"
    /\ in.name = "dropNils.Check"
    /\ Returns(dropNils_Check_mem(heap, Heap0.v))

MemMoveTriviasCheck ==
    /\ op = "init"
    /\ in.name = "opMoveTrivias.Check"
    /\ \E order \in KeyOrders(IF in.n.k = "obj" THEN RelocKeys(in.n.f) ELSE {}) :
        Returns(opMoveTrivias_Check_mem(heap, Heap0.v, order))

MemMergeGroupsCheck ==
    /\ op = "init"
    /\ in.name = "opMergeGroups.Check"
    /\ Returns(opMergeGroups_Check_mem(heap, Heap0.v))

MemPassThrough ==
    /\ op = "init"
    /\ in.name \in PassCalls
    /\ Returns(Result(heap, TRUE, "", Heap0.v))

NextMemory ==
    \/ MemArrHasKeywordCheck
    \/ MemArrToChainConstruct
    \/ MemDropNilsCheck
    \/ MemMoveTriviasCheck
    \/ MemMergeGroupsCheck
    \/ MemPassThrough

SpecMemory == InitMemory /\ [][NextMemory]_vars

\* The value the call on memory hands on is the value the call on trees
\* hands on.
MemAgrees ==
    (op # "init" /\ res.ok) =>
        LET out == Deref(heap, res.node) IN
        CASE op = "opArrHasKeyword.Check" ->
                out = opArrHasKeyword_Check(in.keyword, Var("variadic"), Var("rest"),
                                            NoVars, in.n).calls[2].arg
          [] op = "opArrToChain.Construct" ->
                out = opArrToChain_Construct(Var("rest"), Var("type"), in.n.f).node
          [] op = "dropNils.Check" ->
                out = Array(SelectSeq(IF in.n.k = "arr" THEN in.n.a ELSE <<>>, NotNull))
          [] op = "opMoveTrivias.Check" ->
                \E order \in KeyOrders(RelocKeys(in.n.f)) :
                    out = opMoveTrivias_Check(Var("x"), NoVars, in.n, order).calls[1].arg
          [] op = "opMergeGroups.Check" ->
                out = opMergeGroups_Check(Var("x"), NoVars, in.n).calls[1].arg
          [] OTHER -> out = in.n

\* Every value of the input: the input and what the cells of the memory
\* before the call hold.
SeqRange(a) == {a[i] : i \in DOMAIN a}

ValuesOf(h) ==
    UNION {IF h[at].k = "obj" THEN {h[at].f[x] : x \in DOMAIN h[at].f}
           ELSE SeqRange(h[at].a) : at \in DOMAIN h}

\* The contents of an object or array, one level deep.
Contents(h, v) ==
    IF v.k = "ref" THEN h[v.at].f
    ELSE IF v.k = "slice" THEN Elems(h, v)
    ELSE v

\* C10: across any call of Check or Construct of the five operators, the
\* input node and every array and object reachable from it (the modifier
\* objects and the arrays of the bindings among them) have the same
\* contents after the call as before: every delete, replace or removal was
\* done on a fresh copy.
C10_CopyOnWrite ==
    op # "init" =>
        LET before == Heap0 IN
        /\ \A v \in {before.v} \cup ValuesOf(before.h) :
              Contents(heap, v) = Contents(before.h, v)
        /\ Deref(heap, before.v) = in.n

\* opMoveTrivias.Check, on a node without trivia arrays, took a node out
\* of a token field's uast:Group: the field was replaced in a copy of the
\* input object made in the loop.
C10_Witness ==
    /\ op = "opMoveTrivias.Check"
    /\ in.n.k = "obj"
    /\ ~HasArray(in.n, "LeadingTrivia") /\ ~HasArray(in.n, "TrailingTrivia")
    /\ res.ok
    /\ LET before == Heap0 IN
        /\ Len(heap) > Len(before.h)
        /\ \E at \in (DOMAIN heap) \ (DOMAIN before.h) :
              /\ heap[at].k = "obj"
              /\ DOMAIN heap[at].f = DOMAIN before.h[before.v.at].f
              /\ \E x \in DOMAIN heap[at].f :
                    heap[at].f[x] # before.h[before.v.at].f[x]

(***************************************************************************)
(* The reverse paths: Construct from the bindings a Check left.            *)
(***************************************************************************)
\* opArrHasKeyword.Construct: [err, node].
opArrHasKeyword_Construct(opHas, opRest, s) ==
    LET v == PatConstruct(opHas, s)
        r == PatConstruct(opRest, s)
    IN  IF v.err # "" THEN [err |-> v.err, node |-> Null]
        ELSE IF v.node.k # "bool" THEN [err |-> "unexpected type", node |-> Null]
        ELSE IF r.err # "" THEN [err |-> r.err, node |-> Null]
        ELSE IF ~v.node.b THEN [err |-> "", node |-> r.node]
        \* the node is not synthesized (TODO at line 102)
        ELSE [err |-> "", node |-> r.node]

\* opMoveTrivias.Construct: [err, node].
opMoveTrivias_Construct(sub, s) == PatConstruct(sub, s)

\* opMergeGroups.Construct: [err, node].
opMergeGroups_Construct(sub, s) == PatConstruct(sub, s)

ReverseInputs ==
    {CallOf("opArrHasKeyword", n, kw) : n \in KwInputs, kw \in Keywords}
        \cup {CallOf("opMoveTrivias", n, "") : n \in MemTrivias}
        \cup {CallOf("opMergeGroups", n, "") : n \in MergeInputs}

\* The sub-patterns the operators are given in this repository.
ReverseConfigs ==
    {[opHas |-> Var("variadic"), opRest |-> Var("rest"), sub |-> Var("group")]}

InitReverse == Start(ReverseInputs, ReverseConfigs)

\* The forward match.
Checked(c) ==
    /\ op' = in.name \o ".Check"
    /\ st' = c.st
    /\ calls' = c.calls
    /\ res' = [ok |-> c.ok, err |-> c.err, node |-> Null]
    /\ UNCHANGED <<in, cfg, heap>>

\* The reverse build from the bindings of a successful match.
Constructed(c) ==
    /\ res.ok /\ res.err = ""
    /\ op' = in.name \o ".Construct"
    /\ res' = [ok |-> c.err = "", err |-> c.err, node |-> c.node]
    /\ UNCHANGED <<in, cfg, st, calls, heap>>

RevArrHasKeywordCheck ==
    /\ op = "init" /\ in.name = "opArrHasKeyword"
    /\ Checked(opArrHasKeyword_Check(in.keyword, cfg.opHas, cfg.opRest, st, in.n))

RevArrHasKeywordConstruct ==
    /\ op = "opArrHasKeyword.Check"
    /\ Constructed(opArrHasKeyword_Construct(cfg.opHas, cfg.opRest, st))

RevMoveTriviasCheck ==
    /\ op = "init" /\ in.name = "opMoveTrivias"
    /\ \E order \in KeyOrders(IF in.n.k = "obj" THEN RelocKeys(in.n.f) ELSE {}) :
        Checked(opMoveTrivias_Check(cfg.sub, st, in.n, order))

RevMoveTriviasConstruct ==
    /\ op = "opMoveTrivias.Check"
    /\ Constructed(opMoveTrivias_Construct(cfg.sub, st))

RevMergeGroupsCheck ==
    /\ op = "init" /\ in.name = "opMergeGroups"
    /\ Checked(opMergeGroups_Check(cfg.sub, st, in.n))

RevMergeGroupsConstruct ==
    /\ op = "opMergeGroups.Check"
    /\ Constructed(opMergeGroups_Construct(cfg.sub, st))

NextReverse ==
    \/ RevArrHasKeywordCheck
    \/ RevArrHasKeywordConstruct
    \/ RevMoveTriviasCheck
    \/ RevMoveTriviasConstruct
    \/ RevMergeGroupsCheck
    \/ RevMergeGroupsConstruct

SpecReverse == InitReverse /\ [][NextReverse]_vars

\* C11: Construct of an operator whose reverse path is not implemented
\* (opArrHasKeyword.Construct with the flag bound to true,
\* opMoveTrivias.Construct, opMergeGroups.Construct) ends in an error and
\* never returns a node.
C11_UnsupportedSignalled ==
    (\/ op = "opArrHasKeyword.Construct" /\ st["variadic"] = Bool(TRUE)
     \/ op = "opMoveTrivias.Construct"
     \/ op = "opMergeGroups.Construct") => (~res.ok /\ res.err # "")

(***************************************************************************)
(* C12: the node opMoveTrivias.Check hands to its sub-pattern is the same  *)
(* whatever the order in which the range over the object's fields visits   *)
(* the token fields: it is a function of the input node alone.             *)
(***************************************************************************)
C12_OrderIndependent ==
    (op = "opMoveTrivias.Check" /\ Len(calls) = 1) =>
        \A order \in KeyOrders(RelocKeys(in.f)) :
            LET c == opMoveTrivias_Check(cfg.sub, NoVars, in, order) IN
            /\ Len(c.calls) = 1
            /\ c.calls[1].arg = calls[1].arg

(***************************************************************************)
(* C13: when opArrHasKeyword.Check returns no-match, the binding state     *)
(* holds exactly the bindings it held before the call (none): the flag     *)
(* bound by the flag sub-pattern is not left behind when the remainder     *)
(* sub-pattern fails.                                                      *)
(***************************************************************************)
C13_NoPartialBindings ==
    (op = "opArrHasKeyword.Check" /\ ~res.ok) => st = NoVars

(***************************************************************************)
(* C14: for an input that is not an array, opArrHasKeyword.Check returns   *)
(* no-match at once: neither sub-pattern is invoked and nothing is bound.  *)
(***************************************************************************)
C14_RejectsNonArrays ==
    (op = "opArrHasKeyword.Check" /\ in.k # "arr") =>
        (~res.ok /\ res.err = "" /\ calls = <<>> /\ st = NoVars)

(***************************************************************************)
(* C15: if a modifier object of the list given to opArrToChain.Construct   *)
(* already carries the "Type" field, Construct returns an error and no     *)
(* node, and the modifier objects are left as they were.                   *)
(***************************************************************************)
CarriesType(e) == e.k = "obj" /\ "Type" \in DOMAIN e.f

C15_ChainInvariantError ==
    (op = "opArrToChain.Construct"
        /\ \E i \in DOMAIN in.n.f["rest"].a : CarriesType(in.n.f["rest"].a[i])) =>
        LET mods == in.n.f["rest"].a
            before == Heap0.h
        IN  /\ ~res.ok /\ res.err # "" /\ res.node = Null
            /\ (\A i \in DOMAIN mods : mods[i].k = "obj") =>
                  res.err = "unexpected field in modifier: Type"
            /\ \A at \in DOMAIN before : heap[at] = before[at]

\* The second modifier carries "Type": the first one was wrapped (in a
\* copy) before the error.
C15_Witness ==
    /\ op = "opArrToChain.Construct"
    /\ Len(in.n.f["rest"].a) >= 2
    /\ in.n.f["rest"].a[1].k = "obj" /\ ~CarriesType(in.n.f["rest"].a[1])
    /\ CarriesType(in.n.f["rest"].a[2])
    /\ res.err = "unexpected field in modifier: Type"
    /\ Len(heap) > Len(Heap0.h)

(***************************************************************************)
(* dropNils                                                                *)
(***************************************************************************)
\* A bug: every element is kept.
KeepNonNil_all(arr, i, out) == arr

\* The loop of lines 1009-1014 from the (1-based) index i: the elements
\* that are not nil are appended to out.
RECURSIVE KeepNonNil(_, _, _)
KeepNonNil(arr, i, out) ==
    IF i > Len(arr) THEN out
    ELSE IF arr[i] # Null THEN KeepNonNil(arr, i + 1, Append(out, arr[i]))
    ELSE KeepNonNil(arr, i + 1, out)

\* dropNils.Check: [ok, err, st, calls].
dropNils_Check(sub, s, n) ==
    LET ok  == n.k = "arr"
        \* a failed type assertion leaves arr nil
        arr == IF ok THEN n.a ELSE <<>>
        out == Array(KeepNonNil(arr, 1, <<>>))
        r   == PatCheck(sub, s, out)
    IN  IF ~ok /\ n # Null
        THEN [ok |-> FALSE, err |-> "", st |-> s, calls |-> <<>>]
        ELSE [ok |-> r.ok, err |-> r.err, st |-> r.st,
              calls |-> <<Call("op", out, r)>>]

\* dropNils.Construct: [err, node].
dropNils_Construct(sub, s) == PatConstruct(sub, s)

DropNilsConfigs ==
    {[sub |-> p] : p \in {Var("arr"), Is(Array(<<>>)), Is(Array(<<Comment("a")>>))}}

InitDropNils == Start(KwInputs, DropNilsConfigs)

DropNilsCheck ==
    /\ op = "init"
    /\ LET c == dropNils_Check(cfg.sub, st, in) IN
        /\ op' = "dropNils.Check"
        /\ st' = c.st
        /\ calls' = c.calls
        /\ res' = [ok |-> c.ok, err |-> c.err, node |-> Null]
    /\ UNCHANGED <<in, cfg, heap>>

\* Construct from the bindings the Check left.
DropNilsConstruct ==
    /\ op = "dropNils.Check"
    /\ res.ok /\ res.err = ""
    /\ LET c == dropNils_Construct(cfg.sub, st) IN
        /\ op' = "dropNils.Construct"
        /\ res' = [ok |-> c.err = "", err |-> c.err, node |-> c.node]
    /\ UNCHANGED <<in, cfg, st, calls, heap>>

NextDropNils ==
    \/ DropNilsCheck
    \/ DropNilsConstruct

SpecDropNils == InitDropNils /\ [][NextDropNils]_vars

\* The array of the non-null elements of a, in their order.
NonNulls(a) == Array(SelectSeq(a, NotNull))

\* C16: on an array, dropNils.Check returns what its sub-pattern's Check
\* returns on the array of the non-null elements in their order; a
\* non-null input that is no array is a no-match; dropNils.Construct
\* returns what the sub-pattern's Construct returns, with no null put back.
C16_NilCompactor ==
    /\ (op = "dropNils.Check" /\ in.k = "arr") =>
          LET r == PatCheck(cfg.sub, NoVars, NonNulls(in.a)) IN
          /\ Len(calls) = 1 /\ calls[1].arg = NonNulls(in.a)
          /\ res.ok = r.ok /\ res.err = r.err /\ st = r.st
    /\ (op = "dropNils.Check" /\ in.k # "arr" /\ in # Null) =>
          (~res.ok /\ res.err = "" /\ calls = <<>> /\ st = NoVars)
    /\ op = "dropNils.Construct" =>
          LET c == PatConstruct(cfg.sub, st) IN
          /\ res.err = c.err /\ res.node = c.node
          /\ (cfg.sub.kind = "var" /\ in.k = "arr") => res.node = NonNulls(in.a)

\* An array with a null between two elements was compacted and matched,
\* and built back without the null.
C16_Witness ==
    /\ op = "dropNils.Construct"
    /\ in.k = "arr" /\ Len(in.a) = 3
    /\ in.a[1] # Null /\ in.a[2] = Null /\ in.a[3] # Null
    /\ res.ok /\ res.node = Array(<<in.a[1], in.a[3]>>)

(***************************************************************************)
(* C17: token-field unwrapping.  For the fields named ReturnType or ending *)
(* in "Token"/"Keyword" that hold a uast:Group with a "Nodes" array N     *)
(* with a first element N[j] whose type does not end in "Trivia", the     *)
(* node reaches the sub-pattern with the field holding N[j]; what comes    *)
(* before N[j] follows the leading list held so far, what comes after it   *)
(* precedes the trailing list held so far (the fields taken in some order  *)
(* of visit); the other fields are as they were, the two trivia fields     *)
(* and the designated field apart.                                         *)
(***************************************************************************)
NodesOf(n, key) == n.f[key].f["Nodes"].a

PivotOf(n, key) == firstWithType(NodesOf(n, key), "NotTrivia", 1)

BeforePivot(n, key) == SubSeq(NodesOf(n, key), 1, PivotOf(n, key) - 1)

AfterPivot(n, key) ==
    SubSeq(NodesOf(n, key), PivotOf(n, key) + 1, Len(NodesOf(n, key)))

\* The leading list after the fields of order were visited from the i-th on.
RECURSIVE LeadingAfter(_, _, _)
LeadingAfter(n, order, i) ==
    IF i > Len(order) THEN <<>>
    ELSE BeforePivot(n, order[i]) \o LeadingAfter(n, order, i + 1)

RECURSIVE TrailingAfter(_, _, _)
TrailingAfter(n, order, i) ==
    IF i > Len(order) THEN <<>>
    ELSE TrailingAfter(n, order, i + 1) \o AfterPivot(n, order[i])

\* The node with its token fields unwrapped and without its trivia arrays.
Unwrapped(n) ==
    LET base == IF HasArray(n, "LeadingTrivia") \/ HasArray(n, "TrailingTrivia")
                THEN Stripped(n) ELSE n
    IN  Object([x \in DOMAIN base.f |->
                  IF x \in RelocKeys(n.f) THEN NodesOf(n, x)[PivotOf(n, x)]
                  ELSE base.f[x]])

\* What the sub-pattern is given for the lists L and T around node m.
Relocated(L, m, T) ==
    IF L \o T = <<>> THEN m
    ELSE IF TypeOf(m) \in DOMAIN triviaField
    THEN Object(SetField(m.f, triviaField[TypeOf(m)],
                         Array(L \o m.f[triviaField[TypeOf(m)]].a \o T)))
    ELSE Group(Array(L \o <<m>> \o T))

C17_TokenUnwrapping ==
    (/\ op = "opMoveTrivias.Check"
     /\ in.k = "obj"
     /\ RelocKeys(in.f) # {}
     /\ \A key \in RelocKeys(in.f) : PivotOf(in, key) # 0
     /\ res.err = "") =>
        /\ Len(calls) = 1
        /\ \E order \in KeyOrders(RelocKeys(in.f)) :
              calls[1].arg =
                  Relocated(ElemsOf(in, "LeadingTrivia") \o LeadingAfter(in, order, 1),
                            Unwrapped(in),
                            TrailingAfter(in, order, 1) \o ElemsOf(in, "TrailingTrivia"))

\* Two wrapped token fields and trivia of the node's own on both sides.
C17_Witness ==
    /\ op = "opMoveTrivias.Check"
    /\ in.k = "obj"
    /\ Cardinality(RelocKeys(in.f)) = 2
    /\ \A key \in RelocKeys(in.f) :
          PivotOf(in, key) = 2 /\ Len(NodesOf(in, key)) = 3
    /\ Len(ElemsOf(in, "LeadingTrivia")) = 1
    /\ Len(ElemsOf(in, "TrailingTrivia")) = 1
    /\ res.ok
    /\ Len(calls) = 1

(***************************************************************************)
(* C18: fallback.  When a token or keyword field holds a uast:Group whose  *)
(* "Nodes" array N has only elements whose type ends in "Trivia", all of   *)
(* N goes, in its order, to the leading part of the result (the Nodes of   *)
(* the wrapper or the designated field, in front of the node or of the     *)
(* field's own elements); the trailing part gets nothing of it, and the    *)
(* result has every element of N as often as the input has it.             *)
(***************************************************************************)
FallbackKeys(n) == {key \in RelocKeys(n.f) : PivotOf(n, key) = 0}

\* The array the trivia went to: the wrapper's Nodes or the designated field.
ResultList(out) ==
    IF TypeOf(out) = typeGroup THEN ElemsOf(out, "Nodes")
    ELSE IF TypeOf(out) \in DOMAIN triviaField
    THEN ElemsOf(out, triviaField[TypeOf(out)])
    ELSE <<>>

\* The elements of the node's designated field, if it has one.
OwnElems(n) ==
    IF TypeOf(n) \in DOMAIN triviaField THEN ElemsOf(n, triviaField[TypeOf(n)])
    ELSE <<>>

\* What the token fields of keys with a node among their elements give
\* to the two lists, apart from the node.
RECURSIVE AroundPivots(_, _)
AroundPivots(n, keys) ==
    IF keys = {} THEN <<>>
    ELSE LET key == CHOOSE x \in keys : TRUE IN
         BeforePivot(n, key) \o AfterPivot(n, key) \o AroundPivots(n, keys \ {key})

RECURSIVE AfterPivots(_, _)
AfterPivots(n, keys) ==
    IF keys = {} THEN <<>>
    ELSE LET key == CHOOSE x \in keys : TRUE IN
         AfterPivot(n, key) \o AfterPivots(n, keys \ {key})

\* How many elements in front of the node (or of the field's own elements).
LeadingLen(n, out) ==
    IF TypeOf(out) = typeGroup
    THEN FirstOf({i \in DOMAIN ResultList(out) :
                    TypeOf(ResultList(out)[i]) = TypeOf(n)}) - 1
    ELSE Len(ResultList(out)) - Len(ElemsOf(n, "TrailingTrivia")) - Len(OwnElems(n))
            - Len(AfterPivots(n, RelocKeys(n.f) \ FallbackKeys(n)))

\* N is in a at the places from i on.
OccursAt(N, a, i) == i + Len(N) - 1 <= Len(a) /\ SubSeq(a, i, i + Len(N) - 1) = N

Count(a, e) == Cardinality({i \in DOMAIN a : a[i] = e})

C18_FallbackKeepsContent ==
    (/\ op = "opMoveTrivias.Check"
     /\ in.k = "obj"
     /\ FallbackKeys(in) # {}
     /\ res.err = "") =>
        /\ Len(calls) = 1
        /\ \A key \in FallbackKeys(in) :
              LET N == NodesOf(in, key)
                  R == ResultList(calls[1].arg)
                  lead == LeadingLen(in, calls[1].arg)
                  others == (ElemsOf(in, "LeadingTrivia") \o ElemsOf(in, "TrailingTrivia")
                              \o OwnElems(in)
                              \o AroundPivots(in, RelocKeys(in.f) \ FallbackKeys(in)))
              IN  /\ \E i \in 1..(lead + 1) :
                        OccursAt(N, R, i) /\ i + Len(N) - 1 <= lead
                  /\ \A e \in SeqRange(N) :
                        Count(R, e) = Count(N, e) + Count(others, e)
                  /\ Len(R) = Len(N) + Len(others)
                        + (IF TypeOf(calls[1].arg) = typeGroup THEN 1 ELSE 0)

\* A token field held only a directive; the node has trivia of its own on
\* both sides.
C18_Witness ==
    /\ op = "opMoveTrivias.Check"
    /\ in.k = "obj"
    /\ Cardinality(RelocKeys(in.f)) = 2
    /\ \E key \in FallbackKeys(in) : Len(NodesOf(in, key)) = 1
    /\ Len(ElemsOf(in, "LeadingTrivia")) = 1
    /\ Len(ElemsOf(in, "TrailingTrivia")) = 1
    /\ res.ok
    /\ Len(calls) = 1

(***************************************************************************)
(* C19: opMergeGroups.Check reports no match, without running its          *)
(* sub-pattern, for a node that is neither a uast:Group nor a              *)
(* uast:FunctionGroup, for a uast:Group whose Nodes array holds no         *)
(* uast:FunctionGroup, and for a uast:FunctionGroup whose Nodes array      *)
(* holds no null and no array entry holding a uast:Group.  Whenever the    *)
(* sub-pattern runs, the node it is given differs from the input node.     *)
(***************************************************************************)
MergerNoMatch == ~res.ok /\ res.err = "" /\ calls = <<>> /\ st = NoVars

NeitherGroup(n) ==
    n.k # "obj" \/ TypeOf(n) \notin {typeGroup, typeFuncGroup}

GroupWithoutFuncGroup(n) ==
    /\ TypeOf(n) = typeGroup
    /\ HasArray(n, "Nodes")
    /\ Typed_At(n.f["Nodes"].a, typeFuncGroup) = {}

FuncGroupInOrder(n) ==
    /\ TypeOf(n) = typeFuncGroup
    /\ HasArray(n, "Nodes")
    /\ ~NeedsCompaction(n.f["Nodes"].a)

C19_MatchOnlyOnChange ==
    op = "opMergeGroups.Check" =>
        /\ NeitherGroup(in) => MergerNoMatch
        /\ GroupWithoutFuncGroup(in) => MergerNoMatch
        /\ FuncGroupInOrder(in) => MergerNoMatch
        /\ \A i \in 1..Len(calls) : calls[i].arg # in

\* A function group with two slots in order, which does not match.
C19_Witness ==
    /\ op = "opMergeGroups.Check"
    /\ FuncGroupInOrder(in)
    /\ Len(in.f["Nodes"].a) = 2
    /\ in.f["Nodes"].a[1].k = "arr"
    /\ in.f["Nodes"].a[2] = Alias
    /\ cfg.sub = Var("group")
    /\ MergerNoMatch

(***************************************************************************)
(* Repeated group merging: the rule Map(opMergeGroups{Var("group")}, ...)  *)
(* is applied to a node again and again, each time with a fresh binding    *)
(* state, and the node is replaced by the rewritten one, until the rule    *)
(* matches no more.                                                        *)
(***************************************************************************)
\* Nodes with wrappers below wrappers, on top of the merger's inputs.
DeepSlot ==
    Array(<<Group(Array(<<Group(Array(<<Comment("a")>>)), Attr>>)),
            Group(Array(<<Comment("b")>>))>>)

RepeatInputs ==
    MergeInputs \cup
    {Group(Array(<<Comment("a"), FuncGroup(Array(<<Null, DeepSlot>>)), Comment("b")>>)),
     Group(Array(<<FuncGroup(Array(<<Alias>>)), FuncGroup(Array(<<DeepSlot>>))>>)),
     FuncGroup(Array(<<DeepSlot, Null, DeepSlot>>)),
     FuncGroup(Array(<<Array(<<Group(Array(<<Group(Null)>>))>>)>>))}

RepeatConfigs == {[sub |-> Var("group")]}

InitRepeat == Start(RepeatInputs, RepeatConfigs)

\* One round that matches: the node becomes what the rule rebuilt.
MergeAgain ==
    /\ op \in {"init", "merged"}
    /\ \E c \in {opMergeGroups_Check(cfg.sub, NoVars, in)} :
        /\ c.ok /\ c.err = ""
        /\ op' = "merged"
        /\ in' = opMergeGroups_Construct(cfg.sub, c.st).node
        /\ st' = c.st
        /\ calls' = c.calls
        /\ res' = [ok |-> c.ok, err |-> c.err, node |-> Null]
    /\ UNCHANGED <<cfg, heap>>

\* The round that does not match (or fails): the rule is done with the node.
MergeSettle ==
    /\ op \in {"init", "merged"}
    /\ \E c \in {opMergeGroups_Check(cfg.sub, NoVars, in)} :
        /\ ~(c.ok /\ c.err = "")
        /\ op' = "settled"
        /\ st' = c.st
        /\ calls' = c.calls
        /\ res' = [ok |-> c.ok, err |-> c.err, node |-> Null]
    /\ UNCHANGED <<in, cfg, heap>>

NextRepeat == MergeAgain \/ MergeSettle

SpecRepeat == InitRepeat /\ [][NextRepeat]_vars

\* The rule is applied as long as it can be.
FairRepeat == SpecRepeat /\ WF_vars(NextRepeat)

(***************************************************************************)
(* C20: repeated group merging ends: from every node, the rounds reach a   *)
(* node on which opMergeGroups.Check does not match, also when a slot      *)
(* holds several uast:Group nodes or a spliced group holds a group.  The   *)
(* last Check reports no match, or an error for a group whose Nodes is     *)
(* not an array.                                                           *)
(***************************************************************************)
\* The nodes on which Check fails: a group met without a Nodes array.
Malformed(n) ==
    IF TypeOf(n) = typeGroup
    THEN \/ ~HasArray(n, "Nodes")
         \/ /\ Typed_At(n.f["Nodes"].a, typeFuncGroup) # {}
            /\ ~HasArray(n.f["Nodes"].a[FirstOf(Typed_At(n.f["Nodes"].a, typeFuncGroup))],
                         "Nodes")
    ELSE IF TypeOf(n) = typeFuncGroup
    THEN ~HasArray(n, "Nodes") \/ ~SlotsWellFormed(n.f["Nodes"].a)
    ELSE FALSE

MergeSettled ==
    /\ op = "settled"
    /\ ~res.ok
    /\ res.err = "" \/ Malformed(in)

C20_MergingTerminates == <>[]MergeSettled

\* The rule has stopped on a function group with a slot that held two
\* wrappers, one of them around a wrapper: three merges spliced them all.
C20_Witness ==
    /\ op = "settled"
    /\ res.err = ""
    /\ calls = <<>>
    /\ TypeOf(in) = typeFuncGroup
    /\ Len(in.f["Nodes"].a) = 2
    /\ \A i \in 1..2 :
          in.f["Nodes"].a[i] = Array(<<Comment("a"), Attr, Comment("b")>>)

====
